---- MODULE Spec2Model ----
(***************************************************************************)
(* semantic-rs: the release pipeline of src/main.rs as a state machine.    *)
(*                                                                         *)
(* One run of `main` is one behaviour.  `pc` is the position in `main`;    *)
(* every action is one statement group of `main` (one external call and    *)
(* the match on its result).  The working tree and the git repository are  *)
(* the variables manifest, changelog_file, lockfile, package, repo_commits *)
(* and tags.  External calls can fail: each action draws the outcome of    *)
(* its call with \E.                                                       *)
(***************************************************************************)
EXTENDS Integers, Sequences, FiniteSets, TLC

VARIABLES
    argv,           \* the command line: the set of flags given
    env_CI,         \* the CI environment variable: "<unset>" or its value
    pc,             \* position in main
    args,           \* Args, as decoded by docopt
    is_dry_run,     \* main's local is_dry_run
    version_str,    \* the string toml_file::read_from_file returned
    config,         \* Config: write_mode, current_version, new_version
    commits,        \* severities of the commits since the latest tag
    bump,           \* main's local bump
    bump_result,    \* the Option<Version> version_bump returned
    manifest,       \* Cargo.toml's version string
    manifest_at_start, \* history: Cargo.toml's version string when the run started
    changelog_file, \* the release sections written to the changelog
    lockfile,       \* number of times the lockfile was refreshed
    package,        \* number of times the crate was packaged
    repo_commits,   \* the commits created by this run
    tags,           \* the tags created by this run
    stdout,         \* lines logged to stdout
    stderr,         \* lines logged to stderr
    calls,          \* history: the side-effecting calls made, with their results
    exit_code,      \* the process's exit code, NotExited while running
    outcome         \* how the run ended

vars == <<argv, env_CI, manifest_at_start, pc, args, is_dry_run, version_str, config, commits, bump,
          bump_result, manifest, changelog_file, lockfile, package, repo_commits,
          tags, stdout, stderr, calls, exit_code, outcome>>

---------------------------------------------------------------------------
(* Bounds *)

\* version components of the enumerated manifests range over 0..MaxComp
MaxComp == 2
\* the commit range holds at most MaxCommits commits
MaxCommits == 3

---------------------------------------------------------------------------
(* Strings are sequences of one-character strings. *)

DigitChars == <<"0", "1", "2", "3", "4", "5", "6", "7", "8", "9">>

Digits == {DigitChars[i] : i \in 1..10}

DigitVal(c) == (CHOOSE i \in 1..10 : DigitChars[i] = c) - 1

\* decimal formatting of a natural number
RECURSIVE NatToStr(_)
NatToStr(n) ==
    IF n < 10 THEN <<DigitChars[n + 1]>>
    ELSE NatToStr(n \div 10) \o <<DigitChars[(n % 10) + 1]>>

\* decimal parsing of a non-empty string of digits
RECURSIVE StrToNat(_)
StrToNat(s) ==
    IF Len(s) = 0 THEN 0
    ELSE 10 * StrToNat(SubSeq(s, 1, Len(s) - 1)) + DigitVal(s[Len(s)])

\* the parts of s between the dots
RECURSIVE SplitDots(_)
SplitDots(s) ==
    IF \A i \in 1..Len(s) : s[i] # "."
    THEN <<s>>
    ELSE LET k == CHOOSE i \in 1..Len(s) :
                      s[i] = "." /\ \A j \in 1..(i - 1) : s[j] # "."
         IN <<SubSeq(s, 1, k - 1)>> \o SplitDots(SubSeq(s, k + 1, Len(s)))

IsNumeric(s) == Len(s) > 0 /\ \A i \in 1..Len(s) : s[i] \in Digits

---------------------------------------------------------------------------
(* semver::Version, as main uses it *)

MkVersion(ma, mi, pa) == [major |-> ma, minor |-> mi, patch |-> pa]

\* Version::parse: Ok(version) or Err
Version_parse(s) ==
    LET parts == SplitDots(s) IN
    IF Len(parts) = 3 /\ \A i \in 1..3 : IsNumeric(parts[i])
    THEN [ok |-> TRUE,
          v  |-> MkVersion(StrToNat(parts[1]), StrToNat(parts[2]), StrToNat(parts[3]))]
    ELSE [ok |-> FALSE, v |-> MkVersion(0, 0, 0)]

\* Version::to_string
Version_to_string(v) ==
    NatToStr(v.major) \o <<".">> \o NatToStr(v.minor) \o <<".">> \o NatToStr(v.patch)

increment_patch(v) == [v EXCEPT !.patch = v.patch + 1]

increment_minor(v) == [v EXCEPT !.minor = v.minor + 1, !.patch = 0]

increment_major(v) == [v EXCEPT !.major = v.major + 1, !.minor = 0, !.patch = 0]

---------------------------------------------------------------------------
(* commit_analyzer::CommitType and the bump *)

CommitType == {"Unknown", "Patch", "Minor", "Major"}

None == [some |-> FALSE, v |-> MkVersion(0, 0, 0)]

Some(v) == [some |-> TRUE, v |-> v]

\* version_bump with the Minor and Major arms exchanged
version_bump_arms_swapped(version, b) ==
    CASE b = "Unknown" -> None
      [] b = "Patch"   -> Some(increment_patch(version))
      [] b = "Minor"   -> Some(increment_major(version))
      [] b = "Major"   -> Some(increment_minor(version))

\* version_bump whose Patch arm returns the clone without incrementing it
version_bump_patch_forgotten(version, b) ==
    CASE b = "Unknown" -> None
      [] b = "Patch"   -> Some(version)
      [] b = "Minor"   -> Some(increment_minor(version))
      [] b = "Major"   -> Some(increment_major(version))

\* version_bump whose Unknown arm falls through to a patch bump
version_bump_unknown_bumps(version, b) ==
    CASE b = "Unknown" -> Some(increment_patch(version))
      [] b = "Patch"   -> Some(increment_patch(version))
      [] b = "Minor"   -> Some(increment_minor(version))
      [] b = "Major"   -> Some(increment_major(version))

\* fn version_bump(version: &Version, bump: CommitType) -> Option<Version>
version_bump(version, b) ==
    CASE b = "Unknown" -> None
      [] b = "Patch"   -> Some(increment_patch(version))
      [] b = "Minor"   -> Some(increment_minor(version))
      [] b = "Major"   -> Some(increment_major(version))

\* fn ci_env_set() -> bool: env::var("CI").is_ok()
ci_env_set(ci) == ci # "<unset>"

---------------------------------------------------------------------------
(* The inputs of a run *)

Flags == {"--write", "--version", "--help", "--bogus"}

CIValues == {"<unset>", "", "true"}

Versions == {MkVersion(a, b, c) : a, b, c \in 0..MaxComp}

\* the versions of the end-to-end scenarios, and one whose bump adds a digit
ScenarioVersions == {MkVersion(1, 2, 3), MkVersion(0, 9, 0), MkVersion(9, 9, 9)}

\* manifest contents that are no semantic version
BadVersionStrings ==
    { <<>>, <<"1", ".", "2">>, <<"1", ".", "2", ".", "x">>, <<"1", ".", ".", "3">> }

ManifestStrings ==
    {Version_to_string(v) : v \in Versions \cup ScenarioVersions} \cup BadVersionStrings

RECURSIVE SeqsUpTo(_, _)
SeqsUpTo(S, n) ==
    IF n = 0 THEN {<<>>}
    ELSE LET shorter == SeqsUpTo(S, n - 1) IN
         shorter \cup {Append(q, x) : q \in {r \in shorter : Len(r) = n - 1}, x \in S}

CommitRanges == SeqsUpTo(CommitType, MaxCommits)

---------------------------------------------------------------------------
(* Exit codes *)

NotExited == -1

\* process::exit(0), and the return from main
ExitSuccess == 0

\* process::exit(1)
ExitFailure == 1

\* the exit code of a Rust process whose main thread panicked (the default
\* unwinding runtime; it is neither 0 nor 1 under panic=abort either)
PanicExitCode == 101

---------------------------------------------------------------------------
(* The modules of the crate main calls *)

Rank(t) == CASE t = "Unknown" -> 0 [] t = "Patch" -> 1 [] t = "Minor" -> 2 [] t = "Major" -> 3

\* an aggregate that takes the severity of the last commit of the range
version_bump_since_latest_last_wins(cs) ==
    IF Len(cs) = 0 THEN "Unknown" ELSE cs[Len(cs)]

\* git::version_bump_since_latest: the maximum severity over the commit range
version_bump_since_latest(cs) ==
    IF Len(cs) = 0 THEN "Unknown"
    ELSE CHOOSE t \in {cs[i] : i \in 1..Len(cs)} :
             \A i \in 1..Len(cs) : Rank(cs[i]) <= Rank(t)

\* changelog::generate: the rendered changelog of the release
changelog_generate(cfg) == [release |-> Version_to_string(cfg.new_version)]

\* Config::new_version_string, Config::current_version_string
new_version_string(cfg) == Version_to_string(cfg.new_version)

current_version_string(cfg) == Version_to_string(cfg.current_version)

---------------------------------------------------------------------------
(* The state before main runs *)

NoArgs == [flag_write |-> FALSE, flag_version |-> FALSE]

NoConfig == [write_mode |-> FALSE,
             current_version |-> MkVersion(0, 0, 0),
             new_version |-> MkVersion(0, 0, 0)]

Init ==
    /\ argv \in SUBSET Flags
    /\ env_CI \in CIValues
    /\ manifest \in ManifestStrings
    /\ manifest_at_start = manifest
    /\ pc = "docopt"
    /\ args = NoArgs
    /\ is_dry_run = FALSE
    /\ version_str = <<>>
    /\ config = NoConfig
    /\ commits = <<>>
    /\ bump = "Unknown"
    /\ bump_result = None
    /\ changelog_file = <<>>
    /\ lockfile = 0
    /\ package = 0
    /\ repo_commits = <<>>
    /\ tags = <<>>
    /\ stdout = <<>>
    /\ stderr = <<>>
    /\ calls = <<>>
    /\ exit_code = NotExited
    /\ outcome = "running"

world == <<manifest, changelog_file, lockfile, package, repo_commits, tags>>

locals == <<args, is_dry_run, version_str, config, commits, bump, bump_result>>

inputs == <<argv, env_CI, manifest_at_start>>

\* process::exit(code), or the return from main
Exit(code, how) ==
    /\ pc' = "exited"
    /\ exit_code' = code
    /\ outcome' = how

Continue(next) ==
    /\ pc' = next
    /\ UNCHANGED <<exit_code, outcome>>

Call(step, ok) == calls' = Append(calls, [step |-> step, ok |-> ok])

---------------------------------------------------------------------------
(* main, lines 88-177: arguments, mode, Init resolution, analysis *)

\* Docopt::new(USAGE).and_then(|d| d.decode()).unwrap_or_else(|e| e.exit()):
\* an unknown flag is a usage error (exit 1), --help prints the usage (exit 0)
Docopt ==
    /\ pc = "docopt"
    /\ IF "--bogus" \in argv
       THEN /\ Exit(ExitFailure, "usage_error")
            /\ stderr' = Append(stderr, "usage")
            /\ UNCHANGED <<args, stdout>>
       ELSE IF "--help" \in argv
       THEN /\ Exit(ExitSuccess, "help")
            /\ stdout' = Append(stdout, "usage")
            /\ UNCHANGED <<args, stderr>>
       ELSE /\ args' = [flag_write   |-> "--write" \in argv,
                        flag_version |-> "--version" \in argv]
            /\ Continue("flag_version")
            /\ UNCHANGED <<stdout, stderr>>
    /\ UNCHANGED <<inputs, world, calls, is_dry_run, version_str, config, commits,
                   bump, bump_result>>

\* if args.flag_version { println!(..); process::exit(0); }
FlagVersion ==
    /\ pc = "flag_version"
    /\ IF args.flag_version
       THEN /\ stdout' = Append(stdout, "tool_version")
            /\ Exit(ExitSuccess, "version")
       ELSE /\ Continue("mode")
            /\ UNCHANGED stdout
    /\ UNCHANGED <<inputs, world, locals, stderr, calls>>

\* is_dry_run with the negation of flag_write left out
dry_run_mode_not_negated(ci, flag_write) ==
    IF ci_env_set(ci) THEN FALSE ELSE flag_write

\* let is_dry_run = if ci_env_set() { false } else { !args.flag_write };
dry_run_mode(ci, flag_write) ==
    IF ci_env_set(ci) THEN FALSE ELSE ~flag_write

Mode ==
    /\ pc = "mode"
    /\ is_dry_run' = dry_run_mode(env_CI, args.flag_write)
    /\ stdout' = stdout \o <<"banner", "analyzing_repository">>
    /\ Continue("open_repo")
    /\ UNCHANGED <<inputs, world, args, version_str, config, commits, bump,
                   bump_result, stderr, calls>>

\* an Init resolution failure that exits with process::exit(0)
ResolutionFailed_exits_zero(lines) ==
    /\ stderr' = stderr \o lines
    /\ Exit(ExitSuccess, "failed")

\* an Init resolution failed: logger::stderr(..); process::exit(1)
ResolutionFailed(lines) ==
    /\ stderr' = stderr \o lines
    /\ Exit(ExitFailure, "failed")

\* git2::Repository::open(repository_path)
OpenRepo ==
    /\ pc = "open_repo"
    /\ \E ok \in BOOLEAN :
          IF ok THEN Continue("get_signature") /\ UNCHANGED stderr
          ELSE ResolutionFailed(<<"could_not_open_repository">>)
    /\ UNCHANGED <<inputs, world, locals, stdout, calls>>

\* git::get_signature(&repo)
GetSignature ==
    /\ pc = "get_signature"
    /\ \E ok \in BOOLEAN :
          IF ok THEN Continue("read_manifest") /\ UNCHANGED stderr
          ELSE ResolutionFailed(<<"failed_to_get_committer", "committer_help">>)
    /\ UNCHANGED <<inputs, world, locals, stdout, calls>>

\* toml_file::read_from_file(repository_path)
ReadManifest ==
    /\ pc = "read_manifest"
    /\ \E ok \in BOOLEAN :
          IF ok
          THEN /\ version_str' = manifest
               /\ Continue("parse_version")
               /\ UNCHANGED stderr
          ELSE /\ ResolutionFailed(<<"reading_cargo_toml_failed">>)
               /\ UNCHANGED version_str
    /\ UNCHANGED <<inputs, world, args, is_dry_run, config, commits, bump,
                   bump_result, stdout, calls>>

\* Version::parse(&version).expect("Not a valid version"): Err panics; then
\* Config { write_mode: !is_dry_run, current_version, new_version: 0.0.0, .. }
ParseVersion ==
    /\ pc = "parse_version"
    /\ LET parsed == Version_parse(version_str) IN
       IF parsed.ok
       THEN /\ config' = [write_mode      |-> ~is_dry_run,
                          current_version |-> parsed.v,
                          new_version     |-> (Version_parse(<<"0", ".", "0", ".", "0">>)).v]
            /\ stdout' = stdout \o <<"current_version", "analyzing_commits">>
            /\ Continue("analyze")
            /\ UNCHANGED stderr
       ELSE /\ stderr' = Append(stderr, "panic_not_a_valid_version")
            /\ Exit(PanicExitCode, "panicked")
            /\ UNCHANGED <<config, stdout>>
    /\ UNCHANGED <<inputs, world, args, is_dry_run, version_str, commits, bump,
                   bump_result, calls>>

\* the analysis with the two log lines exchanged
Analyze_phrases_swapped ==
    /\ pc = "analyze"
    /\ \E cs \in CommitRanges :
          /\ commits' = cs
          /\ bump' = version_bump_since_latest(cs)
    /\ stdout' = Append(stdout, IF is_dry_run THEN "bump_will_be" ELSE "bump_would_be")
    /\ Continue("version_bump")
    /\ UNCHANGED <<inputs, world, args, is_dry_run, version_str, config,
                   bump_result, stderr, calls>>

\* let bump = git::version_bump_since_latest(&config); and the log line
Analyze ==
    /\ pc = "analyze"
    /\ \E cs \in CommitRanges :
          /\ commits' = cs
          /\ bump' = version_bump_since_latest(cs)
    /\ stdout' = Append(stdout, IF is_dry_run THEN "bump_would_be" ELSE "bump_will_be")
    /\ Continue("version_bump")
    /\ UNCHANGED <<inputs, world, args, is_dry_run, version_str, config,
                   bump_result, stderr, calls>>

\* the bump without the assignment config.new_version = new_version
VersionBump_not_stored ==
    /\ pc = "version_bump"
    /\ LET r == version_bump(config.current_version, bump) IN
       /\ bump_result' = r
       /\ IF r.some
          THEN /\ Continue("mode_branch")
               /\ UNCHANGED stdout
          ELSE /\ stdout' = Append(stdout, "nothing_to_do")
               /\ Exit(ExitSuccess, "noop")
    /\ UNCHANGED <<inputs, world, args, is_dry_run, version_str, config, commits, bump,
                   stderr, calls>>

\* let new_version = match version_bump(&config.current_version, bump) {..};
\* config.new_version = new_version;
VersionBump ==
    /\ pc = "version_bump"
    /\ LET r == version_bump(config.current_version, bump) IN
       /\ bump_result' = r
       /\ IF r.some
          THEN /\ config' = [config EXCEPT !.new_version = r.v]
               /\ Continue("mode_branch")
               /\ UNCHANGED stdout
          ELSE /\ stdout' = Append(stdout, "nothing_to_do")
               /\ Exit(ExitSuccess, "noop")
               /\ UNCHANGED config
    /\ UNCHANGED <<inputs, world, args, is_dry_run, version_str, commits, bump,
                   stderr, calls>>

\* the mode branch with its condition negated
ModeBranch_negated ==
    /\ pc = "mode_branch"
    /\ IF ~is_dry_run
       THEN /\ stdout' = stdout \o <<"new_version_would_be", "would_write_changelog">>
            /\ Continue("preview")
       ELSE /\ stdout' = Append(stdout, "new_version")
            /\ Continue("write_manifest")
    /\ UNCHANGED <<inputs, world, locals, stderr, calls>>

\* if is_dry_run { .. } else { .. }
ModeBranch ==
    /\ pc = "mode_branch"
    /\ IF is_dry_run
       THEN /\ stdout' = stdout \o <<"new_version_would_be", "would_write_changelog">>
            /\ Continue("preview")
       ELSE /\ stdout' = Append(stdout, "new_version")
            /\ Continue("write_manifest")
    /\ UNCHANGED <<inputs, world, locals, stderr, calls>>

---------------------------------------------------------------------------
(* main, lines 179-193: the dry-run branch *)

\* the dry-run branch without the else: after the preview the steps run
Preview_falls_through ==
    /\ pc = "preview"
    /\ \E ok \in BOOLEAN :
          /\ Call("generate_changelog", ok)
          /\ IF ok
             THEN /\ stdout' = stdout \o <<"rule", "changelog", "rule", "would_create_tag">>
                  /\ Continue("write_manifest")
                  /\ UNCHANGED stderr
             ELSE /\ stderr' = Append(stderr, "generating_changelog_failed")
                  /\ Exit(ExitFailure, "failed")
                  /\ UNCHANGED stdout
    /\ UNCHANGED <<inputs, world, locals>>

\* changelog::generate(&config), printed between two rules
Preview ==
    /\ pc = "preview"
    /\ \E ok \in BOOLEAN :
          /\ Call("generate_changelog", ok)
          /\ IF ok
             THEN /\ stdout' = stdout \o <<"rule", "changelog", "rule", "would_create_tag">>
                  /\ Exit(ExitSuccess, "previewed")
                  /\ UNCHANGED stderr
             ELSE /\ stderr' = Append(stderr, "generating_changelog_failed")
                  /\ Exit(ExitFailure, "failed")
                  /\ UNCHANGED stdout
    /\ UNCHANGED <<inputs, world, locals>>

---------------------------------------------------------------------------
(* main, lines 194-251: the write branch *)

\* the else branch with the commit made before the lockfile and package steps
WriteOrder_commit_early ==
    <<"write_manifest", "write_changelog", "commit_files", "update_lockfile",
      "package", "tag">>

\* the order of the calls in the else branch
WriteOrder ==
    <<"write_manifest", "write_changelog", "update_lockfile", "package",
      "commit_files", "tag">>

PersistingSteps == {WriteOrder[i] : i \in 1..Len(WriteOrder)}

StepIndex(step) == CHOOSE i \in 1..Len(WriteOrder) : WriteOrder[i] = step

\* the position after a step that succeeded; main returns after the last one
After(step) ==
    IF StepIndex(step) = Len(WriteOrder) THEN "exited" ELSE WriteOrder[StepIndex(step) + 1]

\* Err(err) => { logger::stderr(..); process::exit(1); }
StepFailed(msg) ==
    /\ stderr' = Append(stderr, msg)
    /\ Exit(ExitFailure, "failed")

\* toml_file::write_new_version(repository_path, &new_version)
WriteManifest ==
    /\ pc = "write_manifest"
    /\ \E ok \in BOOLEAN :
          /\ Call("write_manifest", ok)
          /\ IF ok
             THEN /\ manifest' = new_version_string(config)
                  /\ stdout' = Append(stdout, "writing_changelog")
                  /\ Continue(After("write_manifest"))
                  /\ UNCHANGED stderr
             ELSE /\ StepFailed("writing_cargo_toml_failed")
                  /\ UNCHANGED <<manifest, stdout>>
    /\ UNCHANGED <<inputs, locals, changelog_file, lockfile, package, repo_commits, tags>>

\* changelog::write(&config)
WriteChangelog ==
    /\ pc = "write_changelog"
    /\ \E ok \in BOOLEAN :
          /\ Call("write_changelog", ok)
          /\ IF ok
             THEN /\ changelog_file' = Append(changelog_file, changelog_generate(config))
                  /\ stdout' = Append(stdout, "updating_lockfile")
                  /\ Continue(After("write_changelog"))
                  /\ UNCHANGED stderr
             ELSE /\ StepFailed("writing_changelog_failed")
                  /\ UNCHANGED <<changelog_file, stdout>>
    /\ UNCHANGED <<inputs, locals, manifest, lockfile, package, repo_commits, tags>>

\* update_lockfile whose boolean result is not checked
UpdateLockfile_result_ignored ==
    /\ pc = "update_lockfile"
    /\ \E ok \in BOOLEAN :
          /\ Call("update_lockfile", ok)
          /\ lockfile' = IF ok THEN lockfile + 1 ELSE lockfile
          /\ stdout' = Append(stdout, "package_crate")
          /\ Continue("package")
          /\ UNCHANGED stderr
    /\ UNCHANGED <<inputs, locals, manifest, changelog_file, package, repo_commits, tags>>

\* cargo::update_lockfile(&config)
UpdateLockfile ==
    /\ pc = "update_lockfile"
    /\ \E ok \in BOOLEAN :
          /\ Call("update_lockfile", ok)
          /\ IF ok
             THEN /\ lockfile' = lockfile + 1
                  /\ stdout' = Append(stdout, "package_crate")
                  /\ Continue(After("update_lockfile"))
                  /\ UNCHANGED stderr
             ELSE /\ StepFailed("cargo_fetch_failed")
                  /\ UNCHANGED <<lockfile, stdout>>
    /\ UNCHANGED <<inputs, locals, manifest, changelog_file, package, repo_commits, tags>>

\* cargo::package(&config)
Package ==
    /\ pc = "package"
    /\ \E ok \in BOOLEAN :
          /\ Call("package", ok)
          /\ IF ok
             THEN /\ package' = package + 1
                  /\ Continue(After("package"))
                  /\ UNCHANGED stderr
             ELSE /\ StepFailed("cargo_package_failed")
                  /\ UNCHANGED package
    /\ UNCHANGED <<inputs, locals, manifest, changelog_file, lockfile, repo_commits,
                   tags, stdout>>

\* commit_files tried again when it fails
CommitFiles_retried ==
    /\ pc = "commit_files"
    /\ \E ok \in BOOLEAN :
          /\ Call("commit_files", ok)
          /\ IF ok
             THEN /\ repo_commits' = Append(repo_commits,
                                            [release |-> new_version_string(config)])
                  /\ stdout' = Append(stdout, "creating_tag")
                  /\ Continue("tag")
             ELSE /\ Continue("commit_files")
                  /\ UNCHANGED <<repo_commits, stdout>>
          /\ UNCHANGED stderr
    /\ UNCHANGED <<inputs, locals, manifest, changelog_file, lockfile, package, tags>>

\* git::commit_files(&config)
CommitFiles ==
    /\ pc = "commit_files"
    /\ \E ok \in BOOLEAN :
          /\ Call("commit_files", ok)
          /\ IF ok
             THEN /\ repo_commits' = Append(repo_commits,
                                            [release |-> new_version_string(config)])
                  /\ stdout' = Append(stdout, "creating_tag")
                  /\ Continue(After("commit_files"))
                  /\ UNCHANGED stderr
             ELSE /\ StepFailed("committing_files_failed")
                  /\ UNCHANGED <<repo_commits, stdout>>
    /\ UNCHANGED <<inputs, locals, manifest, changelog_file, lockfile, package, tags>>

\* the tag step whose Err arm of git::tag is empty: main returns without a tag
Tag_error_swallowed ==
    /\ pc = "tag"
    /\ \E gen_ok \in BOOLEAN :
          IF ~gen_ok
          THEN /\ Call("generate_changelog", FALSE)
               /\ StepFailed("cant_generate_changelog")
               /\ UNCHANGED tags
          ELSE \E ok \in BOOLEAN :
                  /\ calls' = calls \o <<[step |-> "generate_changelog", ok |-> TRUE],
                                         [step |-> "tag", ok |-> ok]>>
                  /\ tags' = IF ok
                             THEN Append(tags,
                                         [name    |-> <<"v">> \o new_version_string(config),
                                          message |-> changelog_generate(config)])
                             ELSE tags
                  /\ Exit(ExitSuccess, "released")
                  /\ UNCHANGED stderr
    /\ UNCHANGED <<inputs, locals, manifest, changelog_file, lockfile, package,
                   repo_commits, stdout>>

\* let tag_message = changelog::generate(&config); let tag_name = format!("v{}", ..);
\* git::tag(repository_path, &tag_name, &tag_message); then main returns
Tag ==
    /\ pc = "tag"
    /\ \E gen_ok \in BOOLEAN :
          IF ~gen_ok
          THEN /\ Call("generate_changelog", FALSE)
               /\ StepFailed("cant_generate_changelog")
               /\ UNCHANGED tags
          ELSE \E ok \in BOOLEAN :
                  /\ calls' = calls \o <<[step |-> "generate_changelog", ok |-> TRUE],
                                         [step |-> "tag", ok |-> ok]>>
                  /\ IF ok
                     THEN /\ tags' = Append(tags,
                                 [name    |-> <<"v">> \o new_version_string(config),
                                  message |-> changelog_generate(config)])
                          /\ IF After("tag") = "exited"
                             THEN Exit(ExitSuccess, "released")
                             ELSE Continue(After("tag"))
                          /\ UNCHANGED stderr
                     ELSE /\ StepFailed("failed_to_create_tag")
                          /\ UNCHANGED tags
    /\ UNCHANGED <<inputs, locals, manifest, changelog_file, lockfile, package,
                   repo_commits, stdout>>

---------------------------------------------------------------------------
(* The run *)

Next ==
    \/ Docopt
    \/ FlagVersion
    \/ Mode
    \/ OpenRepo
    \/ GetSignature
    \/ ReadManifest
    \/ ParseVersion
    \/ Analyze
    \/ VersionBump
    \/ ModeBranch
    \/ Preview
    \/ WriteManifest
    \/ WriteChangelog
    \/ UpdateLockfile
    \/ Package
    \/ CommitFiles
    \/ Tag

Spec == Init /\ [][Next]_vars

\* main is one thread and every call it makes returns: a run that can take
\* a step takes it.  The manifests are those of the scenarios and those that
\* do not parse.
InitLive ==
    /\ Init
    /\ manifest \in {Version_to_string(v) : v \in ScenarioVersions} \cup BadVersionStrings

LiveSpec == InitLive /\ [][Next]_vars /\ WF_vars(Next)

---------------------------------------------------------------------------
(* version_bump alone: a version and a severity are drawn, and it is applied *)

InitBump ==
    /\ argv = {}
    /\ env_CI = "<unset>"
    /\ manifest \in ManifestStrings
    /\ manifest_at_start = manifest
    /\ (Version_parse(manifest)).ok
    /\ version_str = manifest
    /\ config = [NoConfig EXCEPT !.current_version = (Version_parse(manifest)).v]
    /\ bump \in CommitType
    /\ pc = "version_bump"
    /\ args = NoArgs
    /\ is_dry_run = TRUE
    /\ commits = <<>>
    /\ bump_result = None
    /\ changelog_file = <<>>
    /\ lockfile = 0
    /\ package = 0
    /\ repo_commits = <<>>
    /\ tags = <<>>
    /\ stdout = <<>>
    /\ stderr = <<>>
    /\ calls = <<>>
    /\ exit_code = NotExited
    /\ outcome = "running"

SpecBump == InitBump /\ [][VersionBump]_vars

---------------------------------------------------------------------------
(* The analysis alone: a run that has built its Config analyzes a range *)

InitDecide ==
    /\ argv \in SUBSET {"--write"}
    /\ env_CI \in CIValues
    /\ manifest \in {Version_to_string(v) : v \in ScenarioVersions}
    /\ manifest_at_start = manifest
    /\ version_str = manifest
    /\ args = [flag_write |-> "--write" \in argv, flag_version |-> FALSE]
    /\ is_dry_run = dry_run_mode(env_CI, args.flag_write)
    /\ config = [write_mode      |-> ~is_dry_run,
                 current_version |-> (Version_parse(manifest)).v,
                 new_version     |-> MkVersion(0, 0, 0)]
    /\ pc = "analyze"
    /\ commits = <<>>
    /\ bump = "Unknown"
    /\ bump_result = None
    /\ changelog_file = <<>>
    /\ lockfile = 0
    /\ package = 0
    /\ repo_commits = <<>>
    /\ tags = <<>>
    /\ stdout = <<"banner", "analyzing_repository", "current_version", "analyzing_commits">>
    /\ stderr = <<>>
    /\ calls = <<>>
    /\ exit_code = NotExited
    /\ outcome = "running"

SpecDecide == InitDecide /\ [][Analyze]_vars

---------------------------------------------------------------------------
(* What the properties speak about *)

\* the six persisting steps, as the specification lists them: (a) .. (f)
ClaimedOrder ==
    <<"write_manifest", "write_changelog", "update_lockfile", "package",
      "commit_files", "tag">>

ClaimedSteps == {ClaimedOrder[i] : i \in 1..Len(ClaimedOrder)}

\* the calls of persisting steps made so far, in the order they were made
PersistingCalls == SelectSeq(calls, LAMBDA c : c.step \in ClaimedSteps)

Attempted(step) == \E i \in 1..Len(calls) : calls[i].step = step

Completed(step) == \E i \in 1..Len(calls) : calls[i].step = step /\ calls[i].ok

\* nothing on disk or in the repository differs from the start of the run
WorldUnchanged ==
    /\ manifest = manifest_at_start
    /\ changelog_file = <<>>
    /\ lockfile = 0
    /\ package = 0
    /\ repo_commits = <<>>
    /\ tags = <<>>

Logged(stream, line) == \E i \in 1..Len(stream) : stream[i] = line

\* the commits were analyzed: the bump line was logged
Analyzed == Logged(stdout, "bump_would_be") \/ Logged(stdout, "bump_will_be")

Exited == pc = "exited"

---------------------------------------------------------------------------
(* C1: whenever the CI variable is present, with any value, no persisting  *)
(* step (manifest write, changelog write, lockfile refresh, package,       *)
(* commit, tag) is ever executed and nothing persisted changes, whether    *)
(* --write was given or not.                                               *)
C1_CIForcesDryRun ==
    ci_env_set(env_CI) => (PersistingCalls = <<>> /\ WorldUnchanged)

(* C2: a persisting step is executed only in a run that was given --write  *)
(* with the CI variable absent; a run without --write executes none.       *)
C2_ReleasingNeedsWriteAndNoCI ==
    /\ PersistingCalls # <<>> => ("--write" \in argv /\ ~ci_env_set(env_CI))
    /\ "--write" \notin argv => PersistingCalls = <<>>

(* C3: in write mode the persisting steps run in the order manifest,       *)
(* changelog, lockfile, package, commit, tag; a step is started only after *)
(* every earlier one succeeded, so a commit or a tag exists only when the  *)
(* manifest and the changelog were written and the lockfile and package    *)
(* steps succeeded.                                                        *)
C3_StrictOrder ==
    LET P == PersistingCalls IN
    /\ Len(P) <= Len(ClaimedOrder)
    /\ \A i \in 1..Len(P) :
          /\ P[i].step = ClaimedOrder[i]
          /\ i < Len(P) => P[i].ok
    /\ (repo_commits # <<>> \/ tags # <<>>) =>
          /\ manifest = new_version_string(config)
          /\ manifest # manifest_at_start
          /\ changelog_file # <<>>
          /\ lockfile > 0
          /\ package > 0
    /\ tags # <<>> => repo_commits # <<>>

\* a run that made the commit and created the tag
C3_Witness == Exited /\ repo_commits # <<>> /\ tags # <<>>

(* C4: in write mode a failed step is the last thing the run does: the run *)
(* has exited with code 1, no later step was attempted, and what the       *)
(* completed steps did is still in place; when the lockfile refresh failed *)
(* there is no commit and no tag, and the manifest and the changelog stay  *)
(* changed.                                                                *)
C4_FailFastNoRollback ==
    config.write_mode =>
        /\ \A i \in 1..Len(calls) :
              ~calls[i].ok => (i = Len(calls) /\ Exited /\ exit_code = ExitFailure)
        /\ Completed("write_manifest") =>
              (manifest = new_version_string(config) /\ manifest # manifest_at_start)
        /\ Completed("write_changelog") => changelog_file = <<changelog_generate(config)>>
        /\ Completed("update_lockfile") => lockfile = 1
        /\ Completed("package") => package = 1
        /\ Completed("commit_files") => Len(repo_commits) = 1
        /\ Completed("tag") => Len(tags) = 1
        /\ (Attempted("update_lockfile") /\ ~Completed("update_lockfile")) =>
              /\ repo_commits = <<>> /\ tags = <<>>
              /\ ~Attempted("package") /\ ~Attempted("commit_files") /\ ~Attempted("tag")
              /\ manifest # manifest_at_start
              /\ changelog_file # <<>>

\* a run whose lockfile refresh failed
C4_Witness ==
    /\ Exited /\ config.write_mode
    /\ Attempted("update_lockfile") /\ ~Completed("update_lockfile")

(* C5: when the aggregate bump is Unknown the run stops as a no-op in      *)
(* dry-run and in write mode: exit code 0, no new version, no changelog    *)
(* generated or written, no lockfile or package step, no commit, no tag.   *)
C5_UnknownIsNoOp ==
    (Analyzed /\ bump = "Unknown") =>
        /\ pc \in {"version_bump", "exited"}
        /\ Exited => (exit_code = ExitSuccess /\ outcome = "noop")
        /\ calls = <<>>
        /\ WorldUnchanged
        /\ config.new_version = MkVersion(0, 0, 0)
        /\ stderr = <<>>

\* a no-op run in write mode over a range of commits that bump nothing
C5_Witness ==
    /\ Exited /\ outcome = "noop" /\ config.write_mode
    /\ commits # <<>> /\ "--write" \in argv

\* the bump of §4.2, written out on the components
ReferenceBump(V, B) ==
    IF B = "Unknown" THEN [some |-> FALSE, v |-> MkVersion(0, 0, 0)]
    ELSE [some |-> TRUE,
          v |-> IF B = "Patch" THEN MkVersion(V.major, V.minor, V.patch + 1)
                ELSE IF B = "Minor" THEN MkVersion(V.major, V.minor + 1, 0)
                ELSE MkVersion(V.major + 1, 0, 0)]

(* C6: in dry-run mode nothing persisted changes at any point of the run   *)
(* and no persisting step is made; with a bump other than Unknown the new  *)
(* version is computed and the changelog rendered for display, and the run *)
(* exits 0 when the rendering succeeds (1.2.3 with a fix and a feat        *)
(* previews 1.3.0).                                                        *)
C6_DryRunTouchesNothing ==
    is_dry_run =>
        /\ WorldUnchanged
        /\ PersistingCalls = <<>>
        /\ (Analyzed /\ bump # "Unknown" /\ pc # "version_bump") =>
              /\ config.new_version = (ReferenceBump(config.current_version, bump)).v
              /\ (Exited /\ Completed("generate_changelog")) =>
                    /\ exit_code = ExitSuccess
                    /\ outcome = "previewed"
                    /\ Logged(stdout, "changelog")
              /\ (Exited /\ config.current_version = MkVersion(1, 2, 3)
                         /\ commits = <<"Patch", "Minor">>) =>
                    new_version_string(config) = <<"1", ".", "3", ".", "0">>

\* the dry run of scenario 2
C6_Witness ==
    /\ Exited /\ is_dry_run /\ outcome = "previewed"
    /\ config.current_version = MkVersion(1, 2, 3)
    /\ commits = <<"Patch", "Minor">>

(* C7: version_bump(V, B) is the reference bump: Unknown gives None, Patch *)
(* (major, minor, patch+1), Minor (major, minor+1, 0), Major (major+1, 0,  *)
(* 0); the version it was given is left as it was read.                    *)
C7_VersionBumpIsReference ==
    pc # "version_bump" =>
        /\ bump_result = ReferenceBump((Version_parse(version_str)).v, bump)
        /\ config.current_version = (Version_parse(version_str)).v

\* a minor bump of 1.2.3 was applied
C7_Witness ==
    /\ pc # "version_bump" /\ bump = "Minor"
    /\ version_str = <<"1", ".", "2", ".", "3">>
    /\ bump_result = Some(MkVersion(1, 3, 0))

Components == <<"major", "minor", "patch">>

\* W is greater than V in the order on (major, minor, patch)
VersionGreater(W, V) ==
    \/ W.major > V.major
    \/ W.major = V.major /\ W.minor > V.minor
    \/ W.major = V.major /\ W.minor = V.minor /\ W.patch > V.patch

(* C8: for a bump other than Unknown the new version is greater than the   *)
(* old one, exactly one component is one more than it was, and every       *)
(* component to its right is zero.                                         *)
C8_BumpIsStrictIncrease ==
    (pc # "version_bump" /\ bump # "Unknown") =>
        LET V == (Version_parse(version_str)).v
            W == bump_result.v
            up == {i \in 1..3 : W[Components[i]] = V[Components[i]] + 1}
        IN /\ bump_result.some
           /\ VersionGreater(W, V)
           /\ Cardinality(up) = 1
           /\ \A i \in up : \A j \in (i + 1)..3 : W[Components[j]] = 0

\* a major bump of 0.9.0 was applied
C8_Witness ==
    /\ pc # "version_bump" /\ bump = "Major"
    /\ version_str = <<"0", ".", "9", ".", "0">>
    /\ bump_result.some /\ bump_result.v = MkVersion(1, 0, 0)

(* C9: a run that ends on a fatal error, at whatever stage, exits with     *)
(* code 1, and a run exits with 0 only on success, on the no-op or on      *)
(* --version/--help; a manifest version that does not parse is such a      *)
(* fatal error.                                                            *)
C9_ExitCodes ==
    Exited =>
        /\ exit_code \in {ExitSuccess, ExitFailure}
        /\ stderr # <<>> => exit_code = ExitFailure
        /\ exit_code = ExitSuccess =>
              outcome \in {"released", "previewed", "noop", "version", "help"}

\* the diagnostics of the Init resolutions
InitFailureLines ==
    {"could_not_open_repository", "failed_to_get_committer",
     "reading_cargo_toml_failed", "panic_not_a_valid_version"}

(* C10: when an Init resolution fails (repository, committer signature,    *)
(* manifest read, version parse) the run has ended with a non-zero exit    *)
(* code, the commits were not analyzed, no step was made and nothing       *)
(* persisted has changed.                                                  *)
C10_InitFailureWritesNothing ==
    (\E line \in InitFailureLines : Logged(stderr, line)) =>
        /\ Exited
        /\ exit_code \notin {NotExited, ExitSuccess}
        /\ ~Analyzed
        /\ commits = <<>>
        /\ calls = <<>>
        /\ WorldUnchanged

\* a run that ended on a manifest version that is no semantic version
C10_Witness ==
    /\ Exited /\ Logged(stderr, "panic_not_a_valid_version")
    /\ version_str = <<"1", ".", "2">>

\* every call the run made succeeded
AllCallsSucceeded == \A i \in 1..Len(calls) : calls[i].ok

(* C11: a run given --write with CI unset, a bump other than Unknown and   *)
(* every step succeeding ends with exit code 0, the manifest holding the   *)
(* new version, the changelog written, the lockfile refreshed, the package *)
(* produced, exactly one commit and exactly one tag, named "v" followed by *)
(* the new version computed from the current one (0.9.0 with a Major bump  *)
(* gives v1.0.0).                                                          *)
C11_SuccessfulRelease ==
    (/\ Exited /\ "--write" \in argv /\ ~ci_env_set(env_CI)
     /\ Analyzed /\ bump # "Unknown" /\ AllCallsSucceeded) =>
        LET new == (ReferenceBump((Version_parse(manifest_at_start)).v, bump)).v IN
        /\ exit_code = ExitSuccess
        /\ manifest = Version_to_string(new)
        /\ changelog_file = <<[release |-> Version_to_string(new)]>>
        /\ lockfile = 1
        /\ package = 1
        /\ Len(repo_commits) = 1
        /\ Len(tags) = 1
        /\ tags[1].name = <<"v">> \o Version_to_string(new)
        /\ tags[1].message = [release |-> Version_to_string(new)]
        /\ (manifest_at_start = <<"0", ".", "9", ".", "0">> /\ bump = "Major") =>
              tags[1].name = <<"v", "1", ".", "0", ".", "0">>

\* the release of scenario 3
C11_Witness ==
    /\ Exited /\ outcome = "released" /\ exit_code = ExitSuccess
    /\ "--write" \in argv /\ ~ci_env_set(env_CI)
    /\ manifest_at_start = <<"0", ".", "9", ".", "0">> /\ bump = "Major"
    /\ Len(tags) = 1 /\ tags[1].name = <<"v", "1", ".", "0", ".", "0">>

\* Unknown < Patch < Minor < Major
SeverityOrder == <<"Unknown", "Patch", "Minor", "Major">>

SeverityAtMost(a, b) ==
    \E i, j \in 1..4 : SeverityOrder[i] = a /\ SeverityOrder[j] = b /\ i <= j

\* p and q hold the same severities the same number of times
SameMultiset(p, q) ==
    /\ Len(p) = Len(q)
    /\ \A t \in CommitType :
          Cardinality({i \in 1..Len(p) : p[i] = t}) = Cardinality({i \in 1..Len(q) : q[i] = t})

(* C12: the aggregate bump of the run is the greatest severity of the      *)
(* commit range under Unknown < Patch < Minor < Major: Unknown for an      *)
(* empty range, Major as soon as one commit is Major, and the same for     *)
(* every permutation of the range.                                         *)
C12_AggregateIsMaximum ==
    Analyzed =>
        /\ \A i \in 1..Len(commits) : SeverityAtMost(commits[i], bump)
        /\ commits = <<>> => bump = "Unknown"
        /\ commits # <<>> => \E i \in 1..Len(commits) : commits[i] = bump
        /\ (\E i \in 1..Len(commits) : commits[i] = "Major") => bump = "Major"
        /\ \A p \in CommitRanges :
              SameMultiset(p, commits) => version_bump_since_latest(p) = bump
        /\ commits = <<"Patch", "Major", "Minor">> => bump = "Major"

\* the range Patch, Major, Minor was analyzed
C12_Witness ==
    Analyzed /\ commits = <<"Patch", "Major", "Minor">> /\ bump = "Major"

\* the states of the pipeline's state machine (spec 4.3)
InitPcs == {"docopt", "flag_version", "mode", "open_repo", "get_signature",
            "read_manifest", "parse_version"}

AnalyzingPcs == {"analyze", "version_bump", "mode_branch"}

PhaseOf(p, code) ==
    IF p \in InitPcs THEN "Init"
    ELSE IF p \in AnalyzingPcs THEN "Analyzing"
    ELSE IF p = "preview" THEN "Previewing"
    ELSE IF p \in ClaimedSteps THEN "Releasing"
    ELSE IF code = ExitSuccess THEN "Done"
    ELSE "Failed"

\* the transitions of the state machine; NoOp is the step from Analyzing to Done
PhaseTransitions ==
    {<<"Init", "Init">>, <<"Init", "Analyzing">>, <<"Init", "Failed">>, <<"Init", "Done">>,
     <<"Analyzing", "Analyzing">>, <<"Analyzing", "Done">>, <<"Analyzing", "Failed">>,
     <<"Analyzing", "Previewing">>, <<"Analyzing", "Releasing">>,
     <<"Previewing", "Done">>, <<"Previewing", "Failed">>,
     <<"Releasing", "Releasing">>, <<"Releasing", "Done">>, <<"Releasing", "Failed">>}

EnteredNoOp == Logged(stdout, "nothing_to_do")

EnteredPreviewing == pc = "preview" \/ Logged(stdout, "new_version_would_be")

EnteredReleasing ==
    pc \in ClaimedSteps \/ Logged(stdout, "new_version") \/ PersistingCalls # <<>>

BranchesEntered ==
    {b \in {"NoOp", "Previewing", "Releasing"} :
        \/ b = "NoOp" /\ EnteredNoOp
        \/ b = "Previewing" /\ EnteredPreviewing
        \/ b = "Releasing" /\ EnteredReleasing}

C13_OneBranchOneOutcome ==
    /\ Cardinality(BranchesEntered) <= 1
    /\ (Analyzed /\ pc \notin AnalyzingPcs) => Cardinality(BranchesEntered) = 1
    /\ EnteredNoOp => (Exited /\ exit_code = ExitSuccess)
    /\ Exited <=> exit_code # NotExited
    /\ Exited <=> outcome # "running"

C13_Step ==
    /\ ~Exited
    /\ <<PhaseOf(pc, exit_code), PhaseOf(pc', exit_code')>> \in PhaseTransitions

(* C13: every run follows Init -> Analyzing -> {NoOp | Previewing |        *)
(* Releasing} -> Done, with Failed as the other terminal state: no run     *)
(* enters two of the three branches and a run past the analysis has        *)
(* entered exactly one; every run reaches a terminal outcome, exactly one, *)
(* and takes no step after it.                                             *)
C13_StateMachine ==
    /\ []C13_OneBranchOneOutcome
    /\ [][C13_Step]_vars
    /\ <>Exited

\* a run that went through Releasing to Done
C13_Witness ==
    /\ Exited /\ BranchesEntered = {"Releasing"}
    /\ PhaseOf(pc, exit_code) = "Done" /\ outcome = "released"

\* how many times a step was called
TimesCalled(step) == Cardinality({i \in 1..Len(calls) : calls[i].step = step})

(* C14: there are no retries: in one run each of the six side-effecting    *)
(* steps is attempted at most once, and the first of them that fails ends  *)
(* the run with a failure.                                                 *)
C14_NoRetries ==
    /\ \A step \in ClaimedSteps : TimesCalled(step) <= 1
    /\ \A i \in 1..Len(PersistingCalls) :
          ~PersistingCalls[i].ok =>
              /\ i = Len(PersistingCalls)
              /\ Exited
              /\ outcome = "failed"
              /\ exit_code # ExitSuccess
    /\ lockfile <= 1 /\ package <= 1
    /\ Len(changelog_file) <= 1 /\ Len(repo_commits) <= 1 /\ Len(tags) <= 1

\* a run whose commit failed, after four steps that succeeded
C14_Witness ==
    /\ Exited /\ Len(PersistingCalls) = 5
    /\ PersistingCalls[5].step = "commit_files" /\ ~PersistingCalls[5].ok
    /\ TimesCalled("commit_files") = 1

\* the diagnostic of each call of the two branches
StepDiagnostic(step, dry) ==
    CASE step = "generate_changelog" ->
             (IF dry THEN "generating_changelog_failed" ELSE "cant_generate_changelog")
      [] step = "write_manifest"  -> "writing_cargo_toml_failed"
      [] step = "write_changelog" -> "writing_changelog_failed"
      [] step = "update_lockfile" -> "cargo_fetch_failed"
      [] step = "package"         -> "cargo_package_failed"
      [] step = "commit_files"    -> "committing_files_failed"
      [] step = "tag"             -> "failed_to_create_tag"

\* what stderr holds after each failed Init resolution
InitDiagnostics ==
    { <<"could_not_open_repository">>,
      <<"failed_to_get_committer", "committer_help">>,
      <<"reading_cargo_toml_failed">>,
      <<"panic_not_a_valid_version">> }

(* C15: a run that ends in failure has first written the diagnostic of the *)
(* stage that failed (repository, committer signature, manifest read,      *)
(* version parse, changelog generation, manifest write, changelog write,   *)
(* lockfile, package, commit, tag) to stderr, and then exits with code 1.  *)
C15_FailureIsDiagnosed ==
    (Exited /\ exit_code # ExitSuccess /\ outcome # "usage_error") =>
        /\ exit_code = ExitFailure
        /\ IF calls # <<>>
           THEN /\ ~calls[Len(calls)].ok
                /\ stderr = <<StepDiagnostic(calls[Len(calls)].step, is_dry_run)>>
           ELSE /\ ~Analyzed
                /\ stderr \in InitDiagnostics

\* Config was constructed: the current version was logged
ConfigBuilt == Logged(stdout, "current_version")

(* C16: the 0.0.0 placed in Config at construction is never seen by a      *)
(* consumer: when a changelog generation, changelog write, commit or tag   *)
(* step runs, config.new_version is version_bump(current_version, bump),   *)
(* and what was written carries that version; current_version stays the    *)
(* version read from the manifest.                                         *)
C16_SentinelNeverObserved ==
    /\ ConfigBuilt => config.current_version = (Version_parse(manifest_at_start)).v
    /\ (calls # <<>> \/ pc \in ClaimedSteps \cup {"preview"}) =>
          /\ bump_result.some
          /\ bump_result = version_bump(config.current_version, bump)
          /\ config.new_version = bump_result.v
          /\ config.new_version # MkVersion(0, 0, 0)
          /\ \A i \in 1..Len(changelog_file) :
                changelog_file[i].release = Version_to_string(bump_result.v)
          /\ \A i \in 1..Len(repo_commits) :
                repo_commits[i].release = Version_to_string(bump_result.v)
          /\ \A i \in 1..Len(tags) :
                /\ tags[i].name = <<"v">> \o Version_to_string(bump_result.v)
                /\ tags[i].message.release = Version_to_string(bump_result.v)

\* a release of 0.0.0 with a patch bump: changelog, commit and tag carry 0.0.1
C16_Witness ==
    /\ Exited /\ outcome = "released"
    /\ manifest_at_start = <<"0", ".", "0", ".", "0">>
    /\ bump = "Patch"
    /\ changelog_file = <<[release |-> <<"0", ".", "0", ".", "1">>]>>
    /\ Len(repo_commits) = 1 /\ Len(tags) = 1

(* C17: a run that entered the write branch and exits with code 0 has made *)
(* all six steps and the generation of the tag message with success, so    *)
(* its tag exists; a run ends with a commit and no tag only with exit code *)
(* 1, after the changelog generation or the tag creation that follows the  *)
(* commit failed.                                                          *)
C17_ExitZeroMeansTagged ==
    Exited =>
        /\ (EnteredReleasing /\ exit_code = ExitSuccess) =>
              /\ \A step \in ClaimedSteps : Completed(step)
              /\ Completed("generate_changelog")
              /\ AllCallsSucceeded
              /\ Len(repo_commits) = 1
              /\ Len(tags) = 1
        /\ (repo_commits # <<>> /\ tags = <<>>) =>
              /\ exit_code = ExitFailure
              /\ Completed("commit_files")
              /\ calls[Len(calls)].step \in {"generate_changelog", "tag"}
              /\ ~calls[Len(calls)].ok

\* a run that committed and then failed to create the tag
C17_Witness ==
    /\ Exited /\ exit_code = ExitFailure
    /\ repo_commits # <<>> /\ tags = <<>>
    /\ calls[Len(calls)] = [step |-> "tag", ok |-> FALSE]

\* is_dry_run was computed: the banner that follows it was printed
ModeDecided == Logged(stdout, "banner")

\* the parts of C18 about the mode itself
C18_ModeParts ==
    /\ pc \in (InitPcs \ {"docopt", "flag_version", "mode"}) \cup AnalyzingPcs
               \cup ClaimedSteps \cup {"preview"} => ModeDecided
    /\ ModeDecided => is_dry_run = dry_run_mode(env_CI, "--write" \in argv)
    /\ ConfigBuilt => config.write_mode = ~is_dry_run
    /\ EnteredPreviewing => (ConfigBuilt /\ ~config.write_mode)
    /\ EnteredReleasing => (ConfigBuilt /\ config.write_mode)

(* C18, as claimed: the mode is decided once before any repository or      *)
(* manifest access and stays fixed, Config.write_mode is the negation of   *)
(* is_dry_run, the branch taken agrees with it, and a run logs 'would be'  *)
(* exactly when it takes the preview branch and 'will be' exactly when it  *)
(* takes the persisting branch.                                            *)
C18_PhrasingMatchesBranch ==
    /\ C18_ModeParts
    /\ Exited =>
          /\ Logged(stdout, "bump_would_be") <=> EnteredPreviewing
          /\ Logged(stdout, "bump_will_be") <=> EnteredReleasing

(* C18, amended: the mode is decided once before any repository or         *)
(* manifest access and stays fixed, Config.write_mode is the negation of   *)
(* is_dry_run, the branch taken agrees with it; a run that analyzes its    *)
(* commits logs 'would be' exactly when write_mode is false and 'will be'  *)
(* exactly when it is true, so a run that takes the preview branch logged  *)
(* 'would be' and one that takes the persisting branch 'will be', and a    *)
(* run that logged either and took no branch is a no-op (bump Unknown).    *)
C18_PhrasingMatchesMode ==
    /\ C18_ModeParts
    /\ Analyzed =>
          /\ ConfigBuilt
          /\ Logged(stdout, "bump_would_be") <=> ~config.write_mode
          /\ Logged(stdout, "bump_will_be") <=> config.write_mode
    /\ EnteredPreviewing => (Logged(stdout, "bump_would_be") /\ ~Logged(stdout, "bump_will_be"))
    /\ EnteredReleasing => (Logged(stdout, "bump_will_be") /\ ~Logged(stdout, "bump_would_be"))
    /\ (Exited /\ Logged(stdout, "bump_would_be") /\ ~EnteredPreviewing) =>
          (EnteredNoOp /\ bump = "Unknown")
    /\ (Exited /\ Logged(stdout, "bump_will_be") /\ ~EnteredReleasing) =>
          (EnteredNoOp /\ bump = "Unknown")

\* a dry run that logged 'would be' and ended as a no-op, without a preview
C18_Witness ==
    /\ Exited /\ is_dry_run /\ ~config.write_mode
    /\ Logged(stdout, "bump_would_be") /\ ~EnteredPreviewing
    /\ EnteredNoOp

====
